---- MODULE Spec2Model ----
(***************************************************************************)
(* Model of coroutine_example.c: a generator built from a switch statement *)
(* (COROUTINE_BEGIN / COROUTINE_YIELD / COROUTINE_END), its caller-owned   *)
(* counter reached through state->data, and the driver main().            *)
(*                                                                         *)
(* Spec        two generator instances, each initialised as main() does,  *)
(*             called in any interleaving (calls continue after the end). *)
(* SpecZero    the same with the loop bound of line 106 set to 0.         *)
(* SpecReinit  Spec plus COROUTINE_INIT applied again at any time.        *)
(* SpecForged  Spec plus a caller overwriting resume_point.                *)
(* SpecTwoRuns Spec started with different counter values attached.       *)
(* SpecMain    the driver main() on instance 1, statement by statement.   *)
(* SpecMainFair  SpecMain with the fairness of a running program.         *)
(***************************************************************************)
EXTENDS Integers, Sequences, FiniteSets, TLC

(* ---- bounds ---- *)
\* calls made on one instance since its last initialisation
MaxCalls == 13
\* coroutine_example falls off its end without a return statement after
\* COROUTINE_END: the value the caller receives is indeterminate.  Garbage is
\* the set of values it is drawn from (it contains legitimate yields 0 and 2).
MaxGarbage == 2
Garbage == -1 .. MaxGarbage

(* ---- program constants ---- *)
START_OF_SEQUENCE == 0
END_OF_SEQUENCE == -1
\* __LINE__ at the single COROUTINE_YIELD
YIELD_LINE == 107
\* the bound in the condition of the for loop
LoopLimit == 10

\* the generator instances: separate CoroutineState_t structs
Inst == {1, 2}
\* the address of the int32_t counter of instance i (main's state_data)
AddrOfStateData(i) == i
Addr == {AddrOfStateData(i) : i \in Inst}
NullPtr == 0
\* counter values a caller may attach before the first call (main uses 0)
InitCounters == {0, 3, 12}

VARIABLES
  state,    \* state[i]: the CoroutineState_t of instance i
  mem,      \* mem[a]: the int32_t stored at address a
  value,    \* value[i]: what the last call on instance i returned to its caller
  limit,    \* the loop bound of the generator body
  pc,       \* main's position (a source line), "lib" when main is not running
  output,   \* the values printed by main, in order
  calls,    \* history: calls on instance i since its last initialisation
  yields,   \* history: values yielded by instance i since its last initialisation
  exhRet,   \* history: <<v>> once the call that first reached the end returned v
  reinit,   \* history: COROUTINE_INIT was applied again to instance i after a call
  trace     \* history: the labels the last call on instance i passed through

vars == <<state, mem, value, limit, pc, output, calls, yields, exhRet, reinit, trace>>

(* ---- the generator body ---- *)

\* for (*data = 0; ...: the counter after the initialiser, c its value before
LoopInitKeep(c) == c
LoopInit(c) == 0

\* ... *data < 10;)
LoopCondInclusive(c, lim) == c <= lim
LoopCond(c, lim) == c < lim

\* the value of COROUTINE_YIELD: *data * 2
YieldValueOffByOne(c) == c * 2 + 1
YieldValue(c) == c * 2

\* (*data)++
IncrementTwice(c) == c + 2
Increment(c) == c + 1

\* (s)->resume_point = __LINE__
YieldMarkerZero == START_OF_SEQUENCE
YieldMarker == YIELD_LINE

\* (s)->resume_point = END_OF_SEQUENCE
EndMarkerRestart == START_OF_SEQUENCE
EndMarker == END_OF_SEQUENCE

\* switch((s)->resume_point): case 0, case __LINE__, default
DispatchRestart(rp) ==
  IF rp = START_OF_SEQUENCE \/ rp = END_OF_SEQUENCE THEN "case_0"
  ELSE IF rp = YIELD_LINE THEN "case_LINE"
  ELSE "default"
DispatchNoResume(rp) ==
  IF rp = START_OF_SEQUENCE \/ rp = YIELD_LINE THEN "case_0"
  ELSE "default"
DispatchDefaultFirst(rp) ==
  IF rp = YIELD_LINE THEN "case_LINE" ELSE "case_0"
Dispatch(rp) ==
  IF rp = START_OF_SEQUENCE THEN "case_0"
  ELSE IF rp = YIELD_LINE THEN "case_LINE"
  ELSE "default"

\* the statements between COROUTINE_BEGIN and the closing brace, entered at
\* label with counter value c; the result is the state at the return
\* (path lists the labels passed through, the entry label first)
RECURSIVE Body(_, _, _)
Body(label, c, lim) ==
  LET via(r) == [r EXCEPT !.path = <<label>> \o @] IN
  CASE label = "case_0" -> via(Body("for_cond", LoopInit(c), lim))
    [] label = "for_cond" ->
         IF LoopCond(c, lim) THEN via(Body("yield", c, lim))
         ELSE via(Body("default", c, lim))
    [] label = "yield" ->
         [resume_point |-> YieldMarker, counter |-> c,
          yielded |-> TRUE, ret |-> <<YieldValue(c)>>, path |-> <<label>>]
    [] label = "case_LINE" -> via(Body("for_cond", Increment(c), lim))
    [] label = "default" ->
         [resume_point |-> EndMarker, counter |-> c,
          yielded |-> FALSE, ret |-> <<>>, path |-> <<label>>]

\* the cell the body reads and writes: *(int32_t *)state->data
CounterCellStatic(s) == AddrOfStateData(1)
CounterCell(s) == s.data

\* COROUTINE_SEQUENCE_COMPLETE(s)
CompleteWrongSentinel(s) == s.resume_point = START_OF_SEQUENCE
COROUTINE_SEQUENCE_COMPLETE(s) == s.resume_point = END_OF_SEQUENCE

\* one call coroutine_example(&state[i]); ret = <<>> when the function
\* reaches its closing brace without a return statement
coroutine_example(s, m, lim) ==
  LET a == CounterCell(s)
      r == Body(Dispatch(s.resume_point), m[a], lim)
  IN [state |-> [s EXCEPT !.resume_point = r.resume_point],
      mem |-> [m EXCEPT ![a] = r.counter],
      yielded |-> r.yielded,
      ret |-> r.ret,
      path |-> r.path]

\* the effect of a call on instance i, the caller receiving v
CallEffect(i, v) ==
  LET r == coroutine_example(state[i], mem, limit)
      got == IF r.yielded THEN r.ret[1] ELSE v
  IN /\ state' = [state EXCEPT ![i] = r.state]
     /\ mem' = r.mem
     /\ value' = [value EXCEPT ![i] = got]
     /\ calls' = [calls EXCEPT ![i] = @ + 1]
     /\ yields' = [yields EXCEPT ![i] = IF r.yielded THEN Append(@, got) ELSE @]
     /\ exhRet' = [exhRet EXCEPT ![i] =
                     IF COROUTINE_SEQUENCE_COMPLETE(r.state) /\ @ = <<>>
                     THEN <<got>> ELSE @]
     /\ trace' = [trace EXCEPT ![i] = r.path]

(* ---- the library harness ---- *)

\* COROUTINE_INIT(s)
COROUTINE_INIT_NoReset(s) == s
COROUTINE_INIT(s) == [s EXCEPT !.resume_point = START_OF_SEQUENCE]

InitHistory ==
  /\ calls = [i \in Inst |-> 0]
  /\ yields = [i \in Inst |-> <<>>]
  /\ exhRet = [i \in Inst |-> <<>>]
  /\ reinit = [i \in Inst |-> FALSE]
  /\ trace = [i \in Inst |-> <<>>]

\* every instance initialised and its counter attached, as main does
InitWith(lim) ==
  /\ state = [i \in Inst |->
                COROUTINE_INIT([resume_point |-> 0, data |-> AddrOfStateData(i)])]
  /\ mem \in [Addr -> InitCounters]
  /\ value = [i \in Inst |-> 0]
  /\ limit = lim
  /\ pc = "lib"
  /\ output = <<>>
  /\ InitHistory

Init == InitWith(LoopLimit)
InitZero == InitWith(0)

\* a caller calls coroutine_example on instance i
Call(i) ==
  /\ pc = "lib"
  /\ calls[i] < MaxCalls
  /\ \E v \in Garbage : CallEffect(i, v)
  /\ UNCHANGED <<limit, pc, output, reinit>>

\* a caller applies COROUTINE_INIT to instance i again
Reinit(i) ==
  /\ pc = "lib"
  /\ state' = [state EXCEPT ![i] = COROUTINE_INIT(@)]
  /\ calls' = [calls EXCEPT ![i] = 0]
  /\ yields' = [yields EXCEPT ![i] = <<>>]
  /\ exhRet' = [exhRet EXCEPT ![i] = <<>>]
  /\ reinit' = [reinit EXCEPT ![i] = @ \/ state[i].resume_point # START_OF_SEQUENCE]
  /\ trace' = [trace EXCEPT ![i] = <<>>]
  /\ UNCHANGED <<mem, value, limit, pc, output>>

Next == \E i \in Inst : Call(i)
NextReinit == (\E i \in Inst : Call(i)) \/ (\E i \in Inst : Reinit(i))

Spec == Init /\ [][Next]_vars
SpecZero == InitZero /\ [][Next]_vars
SpecReinit == Init /\ [][NextReinit]_vars

\* resume_point values that are neither a sentinel nor the yield marker
ForgedPoints == {-2, 108}

\* a caller overwrites the resume_point field of instance i, which held a
\* position the generator accepts
Forge(i) ==
  /\ pc = "lib"
  /\ state[i].resume_point \in {START_OF_SEQUENCE, YIELD_LINE}
  /\ \E r \in ForgedPoints : state' = [state EXCEPT ![i].resume_point = r]
  /\ UNCHANGED <<mem, value, limit, pc, output, calls, yields, exhRet, reinit, trace>>

\* instance 1 is the one corrupted, instance 2 runs untouched beside it
NextForged == (\E i \in Inst : Call(i)) \/ Forge(1)
SpecForged == Init /\ [][NextForged]_vars

\* two runs that differ in the counter value attached before the first call
InitTwoRuns == Init /\ mem[AddrOfStateData(1)] # mem[AddrOfStateData(2)]
SpecTwoRuns == InitTwoRuns /\ [][Next]_vars

(* ---- the driver ---- *)

\* main's locals before their first assignment hold indeterminate values
InitMain ==
  /\ state \in [Inst -> [resume_point : Garbage, data : Addr \cup {NullPtr}]]
  /\ state[2] = [resume_point |-> START_OF_SEQUENCE, data |-> AddrOfStateData(2)]
  /\ mem \in [Addr -> Garbage]
  /\ mem[AddrOfStateData(2)] = 0
  /\ value \in [Inst -> Garbage]
  /\ value[2] = 0
  /\ limit = LoopLimit
  /\ pc = "l124"
  /\ output = <<>>
  /\ InitHistory

\* state_data = 0;
Main124 ==
  /\ pc = "l124"
  /\ mem' = [mem EXCEPT ![AddrOfStateData(1)] = 0]
  /\ pc' = "l125"
  /\ UNCHANGED <<state, value, limit, output, calls, yields, exhRet, reinit, trace>>

\* COROUTINE_INIT(&state);
Main125 ==
  /\ pc = "l125"
  /\ state' = [state EXCEPT ![1] = COROUTINE_INIT(@)]
  /\ pc' = "l126"
  /\ UNCHANGED <<mem, value, limit, output, calls, yields, exhRet, reinit, trace>>

\* state.data = (void *)&state_data;
Main126 ==
  /\ pc = "l126"
  /\ state' = [state EXCEPT ![1].data = AddrOfStateData(1)]
  /\ pc' = "l128"
  /\ UNCHANGED <<mem, value, limit, output, calls, yields, exhRet, reinit, trace>>

\* value = coroutine_example(&state);
Main128 ==
  /\ pc = "l128"
  /\ \E v \in Garbage : CallEffect(1, v)
  /\ pc' = "l129"
  /\ UNCHANGED <<limit, output, reinit>>

\* if COROUTINE_SEQUENCE_COMPLETE(&state) { break; }
Main129 ==
  /\ pc = "l129"
  /\ pc' = IF COROUTINE_SEQUENCE_COMPLETE(state[1]) THEN "l134" ELSE "l132"
  /\ UNCHANGED <<state, mem, value, limit, output, calls, yields, exhRet, reinit, trace>>

\* printf("Output: %d\n", value);
Main132 ==
  /\ pc = "l132"
  /\ output' = Append(output, value[1])
  /\ pc' = "l128"
  /\ UNCHANGED <<state, mem, value, limit, calls, yields, exhRet, reinit, trace>>

\* return 0;
Main134 ==
  /\ pc = "l134"
  /\ pc' = "exit"
  /\ UNCHANGED <<state, mem, value, limit, output, calls, yields, exhRet, reinit, trace>>

NextMain ==
  Main124 \/ Main125 \/ Main126 \/ Main128 \/ Main129 \/ Main132 \/ Main134

SpecMain == InitMain /\ [][NextMain]_vars
SpecMainFair == SpecMain /\ WF_vars(NextMain)

(* ---- properties ---- *)

\* the counter of instance i, read through its data pointer
CounterOf(i) == mem[state[i].data]
Suspended(i) == state[i].resume_point = YIELD_LINE
Exhausted(i) == state[i].resume_point = END_OF_SEQUENCE
\* instance i has just been called
Called(i) == calls'[i] = calls[i] + 1
\* the doubled integers 0..9
Doubled == [n \in 1 .. 10 |-> 2 * (n - 1)]
IsPrefix(s, t) == Len(s) <= Len(t) /\ \A j \in 1 .. Len(s) : s[j] = t[j]

\* C1: from an initialised state the n-th call (n = 0..9, 0-indexed) returns
\* 2*n and leaves the state not exhausted; the 11th call is the first call
\* after which COROUTINE_SEQUENCE_COMPLETE is true.
C1_NthCallReturnsDouble ==
  \A i \in Inst :
    /\ calls[i] = 0 => ~Exhausted(i)
    /\ calls[i] \in 1 .. 10 => value[i] = 2 * (calls[i] - 1) /\ ~Exhausted(i)
    /\ calls[i] = 11 => Exhausted(i)

C1_Witness ==
  \E i \in Inst : calls[i] = 11 /\ Exhausted(i) /\ Len(yields[i]) = 10

\* the plain loop 'for (i = 0; i < 10; i++) emit 2*i', run in one pass: the
\* sequence of (loop variable, emitted value) pairs
RECURSIVE PlainLoop(_, _)
PlainLoop(i, acc) ==
  IF i < 10 THEN PlainLoop(i + 1, Append(acc, [i |-> i, emit |-> 2 * i]))
  ELSE acc
PlainRun == PlainLoop(0, <<>>)

\* C2: resume correctness: the values yielded call by call are, in order, the
\* values the plain loop emits in one pass (one per call, the same length at
\* exhaustion), and at every yield the counter equals the loop variable of the
\* plain loop at the corresponding emit.
C2_ResumeEqualsPlainLoop ==
  \A i \in Inst :
    LET k == Len(yields[i]) IN
      /\ k <= Len(PlainRun)
      /\ \A j \in 1 .. k : yields[i][j] = PlainRun[j].emit
      /\ ~Exhausted(i) => k = calls[i]
      /\ Suspended(i) => k >= 1 /\ CounterOf(i) = PlainRun[k].i
      /\ Exhausted(i) => k = Len(PlainRun)

C2_Witness ==
  \E i, j \in Inst :
    /\ Exhausted(i) /\ Len(yields[i]) = Len(PlainRun)
    /\ Suspended(j) /\ Len(yields[j]) = 4

\* C3: a call made when the position is already exhausted leaves the counter
\* as it was, produces no new value and leaves COROUTINE_SEQUENCE_COMPLETE
\* true, however often it is repeated.
C3_ExhaustedCallIsNoOp ==
  [][\A i \in Inst :
       (Exhausted(i) /\ Called(i)) =>
         /\ mem'[state[i].data] = mem[state[i].data]
         /\ yields'[i] = yields[i]
         /\ COROUTINE_SEQUENCE_COMPLETE(state'[i])]_vars

C3_Witness ==
  \E i \in Inst : Exhausted(i) /\ calls[i] >= 13 /\ CounterOf(i) = 10

\* C4: once resume_point = END_OF_SEQUENCE it stays END_OF_SEQUENCE in all
\* later states.
C4_ExhaustedIsTerminal ==
  [][\A i \in Inst : Exhausted(i) => state'[i].resume_point = END_OF_SEQUENCE]_vars

C4_Witness ==
  \E i \in Inst : Exhausted(i) /\ calls[i] = 12

\* C5: every call on an exhausted state returns one and the same value, the
\* value returned by the call that first reached exhaustion.
C5_SameSentinel ==
  \A i \in Inst :
    (Exhausted(i) /\ exhRet[i] # <<>>) => value[i] = exhRet[i][1]

\* C6: with loop bound 0 the first call on a not-started state ends exhausted,
\* yields no value, and the position is never that of the yield site.
C6_ZeroElements ==
  \A i \in Inst :
    /\ ~Suspended(i)
    /\ calls[i] >= 1 => Exhausted(i) /\ yields[i] = <<>>

C6_Witness ==
  \E i \in Inst : limit = 0 /\ calls[i] = 1 /\ Exhausted(i) /\ yields[i] = <<>>

\* C7: after at least one call since the last COROUTINE_INIT the position is
\* not START_OF_SEQUENCE.
C7_NotStartedOnlyBeforeFirstCall ==
  \A i \in Inst : calls[i] >= 1 => state[i].resume_point # START_OF_SEQUENCE

C7_Witness ==
  \E i \in Inst : reinit[i] /\ calls[i] >= 1 /\ Suspended(i)

\* C8: a call from a non-exhausted state either produces exactly one value
\* and ends at the marker of the yield site, or produces no value and ends
\* exhausted; the position is always not-started, that marker, or exhausted.
C8_OneValueOrExhausted ==
  /\ [](\A i \in Inst :
          state[i].resume_point \in {START_OF_SEQUENCE, YIELD_LINE, END_OF_SEQUENCE})
  /\ [][\A i \in Inst :
          (~Exhausted(i) /\ Called(i)) =>
            \/ /\ Len(yields'[i]) = Len(yields[i]) + 1
               /\ yields'[i][Len(yields'[i])] = value'[i]
               /\ state'[i].resume_point = YIELD_LINE
            \/ /\ yields'[i] = yields[i]
               /\ state'[i].resume_point = END_OF_SEQUENCE]_vars

C8_Witness ==
  \E i, j \in Inst :
    /\ Suspended(i) /\ calls[i] = 1 /\ yields[i] = <<0>>
    /\ Exhausted(j) /\ calls[j] = 11

\* C9: main terminates: it reaches the break and returns after exactly 11
\* calls, having printed exactly 0, 2, ..., 18 in that order.
C9_MainTerminates ==
  <>(pc = "exit" /\ calls[1] = 11 /\ output = <<0, 2, 4, 6, 8, 10, 12, 14, 16, 18>>)

C9_Witness ==
  pc = "exit" /\ Len(output) = 10 /\ Exhausted(1)

\* C10: two instances with separate structs and separate counters do not
\* interfere: a call on one leaves the other's resume_point and counter
\* unchanged, and under every interleaving each instance yields 0, 2, ..., 18
\* and then is exhausted.
C10_InstancesIndependent ==
  /\ [][\A i \in Inst :
          calls'[i] = calls[i] =>
            /\ state'[i] = state[i]
            /\ mem'[AddrOfStateData(i)] = mem[AddrOfStateData(i)]]_vars
  /\ [](\A i \in Inst :
          /\ IsPrefix(yields[i], Doubled)
          /\ Len(yields[i]) = IF calls[i] <= 10 THEN calls[i] ELSE 10
          /\ Exhausted(i) <=> calls[i] >= 11)

C10_Witness ==
  /\ \A i \in Inst : Exhausted(i) /\ yields[i] = Doubled
  /\ calls[1] # calls[2]

Range(f) == {f[j] : j \in 1 .. Len(f)}

\* C11: a call from the suspended position with counter c enters after the
\* yield, makes the counter exactly c+1 and then evaluates the loop condition;
\* the loop initialiser (case 0) runs only in a call that starts not-started.
C11_ResumeContinuesLoop ==
  [][\A i \in Inst :
       Called(i) =>
         /\ Suspended(i) =>
              /\ mem'[state[i].data] = mem[state[i].data] + 1
              /\ Len(trace'[i]) >= 2
              /\ trace'[i][1] = "case_LINE" /\ trace'[i][2] = "for_cond"
         /\ "case_0" \in Range(trace'[i]) =>
              state[i].resume_point = START_OF_SEQUENCE]_vars

C11_Witness ==
  \E i \in Inst :
    /\ calls[i] = 6 /\ CounterOf(i) = 5
    /\ trace[i] = <<"case_LINE", "for_cond", "yield">>

\* main has passed the initialisation of its locals (lines 124-126)
MainInitialised == pc \notin {"l124", "l125", "l126"}

\* C12: in every state main reaches by calls from its initial state, suspended
\* implies 0 <= counter <= 9 and exhausted holds exactly when counter = 10 (so
\* no state is suspended with counter 10).
C12_ExhaustedIffCounterTen ==
  MainInitialised =>
    /\ Suspended(1) => CounterOf(1) \in 0 .. 9
    /\ Exhausted(1) <=> CounterOf(1) = 10
    /\ ~(Suspended(1) /\ CounterOf(1) = 10)

C12_Witness ==
  pc = "l129" /\ Exhausted(1) /\ CounterOf(1) = 10 /\ calls[1] = 11

Front(s) == SubSeq(s, 1, Len(s) - 1)

\* C13: main decides exhaustion from the state, after every call and before
\* using the returned value: what the exhausting call returned is never
\* printed, and every value returned by a call that ends suspended is printed
\* exactly once.
C13_PrintsExactlyTheYields ==
  /\ [](output = IF pc \in {"l129", "l132"} /\ Suspended(1)
                 THEN Front(yields[1]) ELSE yields[1])
  /\ [][output' # output =>
          /\ ~Exhausted(1)
          /\ output' = Append(output, value[1])
          /\ value[1] = yields[1][Len(yields[1])]]_vars

\* the exhausting call returned 2, a value the generator also yields, and it
\* was not printed
C13_Witness ==
  pc = "l134" /\ value[1] = 2 /\ exhRet[1] = <<2>> /\ output = Doubled

\* C14: a call with a resume_point that is neither START_OF_SEQUENCE nor the
\* yield marker takes the default branch: it ends exhausted, yields no value
\* and leaves the counter unchanged.
C14_ForgedPositionTakesDefault ==
  [][\A i \in Inst :
       (Called(i) /\ state[i].resume_point \notin {START_OF_SEQUENCE, YIELD_LINE}) =>
         /\ trace'[i] = <<"default">>
         /\ state'[i].resume_point = END_OF_SEQUENCE
         /\ yields'[i] = yields[i]
         /\ mem' = mem]_vars

\* exhausted in the middle of the sequence: only a forged position gives this
C14_Witness ==
  \E i \in Inst :
    /\ Exhausted(i) /\ trace[i] = <<"default">>
    /\ CounterOf(i) = 4 /\ yields[i] = <<0, 2, 4, 6, 8>>

\* C15: two runs that differ only in the counter attached before the first
\* call return the same values and pass through the same positions, call by
\* call: 0, 2, ..., 18 and then exhaustion.
C15_InitialCounterIrrelevant ==
  /\ \A i, j \in Inst :
       calls[i] = calls[j] =>
         /\ yields[i] = yields[j]
         /\ state[i].resume_point = state[j].resume_point
         /\ ~Exhausted(i) => value[i] = value[j]
         /\ calls[i] >= 1 => CounterOf(i) = CounterOf(j)
  /\ \A i \in Inst :
       /\ IsPrefix(yields[i], Doubled)
       /\ calls[i] >= 11 => Exhausted(i) /\ yields[i] = Doubled

C15_Witness ==
  /\ calls[1] = 11 /\ calls[2] = 11
  /\ yields[1] = Doubled /\ yields[2] = Doubled
  /\ Exhausted(1) /\ Exhausted(2)

\* C16: after COROUTINE_INIT is applied to a suspended or exhausted state,
\* whatever the counter holds, the following calls yield 0, 2, ..., 18 again
\* and the 11th call after the re-initialisation reaches exhaustion.
C16_InitRestarts ==
  \A i \in Inst :
    reinit[i] =>
      /\ calls[i] = 0 => state[i].resume_point = START_OF_SEQUENCE
      /\ calls[i] \in 1 .. 10 =>
           /\ Suspended(i)
           /\ value[i] = 2 * (calls[i] - 1)
           /\ yields[i] = SubSeq(Doubled, 1, calls[i])
      /\ calls[i] >= 11 => Exhausted(i) /\ yields[i] = Doubled

C16_Witness ==
  \E i \in Inst : reinit[i] /\ calls[i] = 11 /\ Exhausted(i) /\ yields[i] = Doubled

====
